---- MODULE Spec2Model ----
(***************************************************************************)
(* Model of the scan-report backend: the in-memory Database                *)
(* (src/infrastructure/repository.py), the AnalysisService                 *)
(* (src/domain/services.py) and the value formatter                        *)
(* (src/utils/formatting.py), and the report endpoints (src/api/v1.py).    *)
(*                                                                         *)
(* Text is modelled as a sequence of tokens: every punctuation mark and    *)
(* every digit is a one-character token, a parameter name or display name  *)
(* is one token.  Python's Optional[x] is a sequence of length 0 (None) or *)
(* 1.  A float is a decimal with three fractional digits (thou is its      *)
(* magnitude in thousandths) together with the sign of the representation  *)
(* error of the binary double that stores it (err), which decides how      *)
(* Python's correctly-rounded fixed-point formatting breaks a decimal tie. *)
(*                                                                         *)
(* args is the last call made and ret the value it returned: None for a    *)
(* call that returns nothing, and for one ended by an exception.           *)
(***************************************************************************)
EXTENDS Integers, Sequences, FiniteSets, TLC

VARIABLES scans, widgets, algos, args, ret

vars == <<scans, widgets, algos, args, ret>>

----------------------------------------------------------------------------
(* Optional values and generic sequence helpers                            *)

None == <<>>

Some(x) == <<x>>

Range(s) == {s[i] : i \in 1..Len(s)}

\* plausible slip: the separator is written after every part
RECURSIVE join_trailing(_, _)
join_trailing(sep, parts) ==
    IF parts = <<>> THEN <<>>
    ELSE parts[1] \o sep \o join_trailing(sep, Tail(parts))

\* str.join: sep.join(parts)
RECURSIVE join(_, _)
join(sep, parts) ==
    IF parts = <<>> THEN <<>>
    ELSE IF Len(parts) = 1 THEN parts[1]
    ELSE parts[1] \o sep \o join(sep, Tail(parts))

\* str.rstrip(ch): drop every trailing occurrence of the token ch
RECURSIVE rstrip(_, _)
rstrip(s, ch) ==
    IF s /= <<>> /\ s[Len(s)] = ch THEN rstrip(SubSeq(s, 1, Len(s) - 1), ch)
    ELSE s

----------------------------------------------------------------------------
(* Floats and Python's number formatting                                   *)

DigitChar == <<"0", "1", "2", "3", "4", "5", "6", "7", "8", "9">>

\* decimal digits of a natural number, most significant first
RECURSIVE IntDigits(_)
IntDigits(n) ==
    IF n < 10 THEN <<DigitChar[n + 1]>>
    ELSE IntDigits(n \div 10) \o <<DigitChar[(n % 10) + 1]>>

\* exactly k decimal digits of n (n < 10^k), zero padded on the left
RECURSIVE PadDigits(_, _)
PadDigits(n, k) ==
    IF k = 0 THEN <<>>
    ELSE PadDigits(n \div 10, k - 1) \o <<DigitChar[(n % 10) + 1]>>

Pow10(k) == IF k = 0 THEN 1 ELSE IF k = 1 THEN 10 ELSE IF k = 2 THEN 100 ELSE 1000

\* magnitude of v in units of 10^-digits, correctly rounded from the stored
\* double: a remainder below/above one half rounds down/up; an exact decimal
\* tie is decided by the representation error, and by round-half-even when
\* the double is exact (err = 0)
RoundTo(v, digits) ==
    LET unit == Pow10(3 - digits)
        q    == v.thou \div unit
        r    == v.thou % unit
    IN  IF 2 * r < unit THEN q
        ELSE IF 2 * r > unit THEN q + 1
        ELSE IF v.err < 0 THEN q
        ELSE IF v.err > 0 THEN q + 1
        ELSE IF q % 2 = 0 THEN q ELSE q + 1

SignChars(v) == IF v.neg THEN <<"-">> ELSE <<>>

\* f"{value:.<digits>f}" for digits in 1..3
FixedPoint(v, digits) ==
    LET m == RoundTo(v, digits)
    IN  SignChars(v) \o IntDigits(m \div Pow10(digits)) \o <<".">>
            \o PadDigits(m % Pow10(digits), digits)

\* str(value) of a float: shortest round-trip repr, at least one fractional
\* digit
FloatStr(v) ==
    LET frac == rstrip(PadDigits(v.thou % 1000, 3), "0")
    IN  SignChars(v) \o IntDigits(v.thou \div 1000) \o <<".">>
            \o (IF frac = <<>> THEN <<"0">> ELSE frac)

\* plausible slip: the decimal point is stripped before the zeros
_format_percent_point_first(value) ==
    LET rounded == rstrip(rstrip(FixedPoint(value, 3), "."), "0")
    IN  rounded \o <<" ", "%">>

_format_percent(value) ==
    LET rounded == rstrip(rstrip(FixedPoint(value, 3), "0"), ".")
    IN  rounded \o <<" ", "%">>

\* plausible slip: the unit is normalised (case, blanks) before matching
format_value_normalised_unit(value, unit) ==
    CASE unit \in {"float_2_dig", "FLOAT_2_DIG"} ->
                <<"(">> \o FixedPoint(value, 2) \o <<")">>
      [] unit \in {"float_1_dig", "FLOAT_1_DIG"} -> FixedPoint(value, 1)
      [] unit \in {"%", "% "}                    -> _format_percent(value)
      [] OTHER                                   -> FloatStr(value)

\* plausible slip: one-decimal values are written with two decimals
format_value_1_dig_as_2(value, unit) ==
    CASE unit = "float_2_dig" -> <<"(">> \o FixedPoint(value, 2) \o <<")">>
      [] unit = "float_1_dig" -> FixedPoint(value, 2)
      [] unit = "%"           -> _format_percent(value)
      [] OTHER                -> FloatStr(value)

format_value(value, unit) ==
    CASE unit = "float_2_dig" -> <<"(">> \o FixedPoint(value, 2) \o <<")">>
      [] unit = "float_1_dig" -> FixedPoint(value, 1)
      [] unit = "%"           -> _format_percent(value)
      [] OTHER                -> FloatStr(value)

----------------------------------------------------------------------------
(* Database: the in-memory store (a dict keeps the insertion order of its  *)
(* keys, so _scans is a sequence of scans with pairwise distinct ids;      *)
(* _widgets and _algos are functions from the ids present)                 *)

\* Python truthiness of an Optional[str]: None and "" are falsy
\* plausible slip: `if user_id is not None:` instead of `if user_id:`
StrGiven_not_none(opt) == opt /= None

StrGiven(opt) == opt /= None /\ opt[1] /= ""

\* Python truthiness of an Optional[datetime]: only None is falsy
DateGiven(opt) == opt /= None

\* plausible slip: the scans of the user are selected but not kept
ByUser_not_kept(results, user_id) == results

\* [s for s in results if s.user_id == user_id], applied only `if user_id:`
ByUser(results, user_id) ==
    LET keep(s) == s.user_id = user_id[1]
    IN  IF StrGiven(user_id) THEN SelectSeq(results, keep) ELSE results

ByDevice(results, device_id) ==
    LET keep(s) == s.device_id = device_id[1]
    IN  IF StrGiven(device_id) THEN SelectSeq(results, keep) ELSE results

\* plausible slip: the lower bound is exclusive
FromDate_exclusive(results, from_date) ==
    LET keep(s) == s.sampled_at > from_date[1]
    IN  IF DateGiven(from_date) THEN SelectSeq(results, keep) ELSE results

FromDate(results, from_date) ==
    LET keep(s) == s.sampled_at >= from_date[1]
    IN  IF DateGiven(from_date) THEN SelectSeq(results, keep) ELSE results

ToDate(results, to_date) ==
    LET keep(s) == s.sampled_at <= to_date[1]
    IN  IF DateGiven(to_date) THEN SelectSeq(results, keep) ELSE results

\* plausible slip: the device filter is applied to the whole store and its
\* matches are added to the user's scans instead of narrowing them
list_scans_user_or_device(db_scans, user_id, device_id, from_date, to_date) ==
    LET keep(s) == \/ ~StrGiven(user_id) \/ s.user_id = user_id[1]
                   \/ (StrGiven(device_id) /\ s.device_id = device_id[1])
        some    == IF StrGiven(user_id) THEN SelectSeq(db_scans, keep)
                   ELSE ByDevice(db_scans, device_id)
    IN  ToDate(FromDate(some, from_date), to_date)

list_scans(db_scans, user_id, device_id, from_date, to_date) ==
    ToDate(FromDate(ByDevice(ByUser(db_scans, user_id), device_id), from_date), to_date)

\* dict.get(key): the absent value when the key is missing
DictGet(d, key) == IF key \in DOMAIN d THEN Some(d[key]) ELSE None

get_widget(db_widgets, widget_id) == DictGet(db_widgets, widget_id)

get_algo(db_algos, algo_id) == DictGet(db_algos, algo_id)

\* d[key] = value on a dict without iteration order
DictPut(d, key, value) ==
    [k \in DOMAIN d \cup {key} |-> IF k = key THEN value ELSE d[k]]

\* plausible slip: the id is deleted and inserted anew, which moves the
\* scan to the end
PutScan_move_to_end(db_scans, scan) ==
    LET other(s) == s.id /= scan.id
    IN  Append(SelectSeq(db_scans, other), scan)

\* self._scans[scan.id] = scan: a present id keeps its position
PutScan(db_scans, scan) ==
    IF \E i \in 1..Len(db_scans) : db_scans[i].id = scan.id
    THEN [i \in 1..Len(db_scans) |->
            IF db_scans[i].id = scan.id THEN scan ELSE db_scans[i]]
    ELSE Append(db_scans, scan)

add_scan(scan) ==
    /\ scans' = PutScan(scans, scan)
    /\ args' = [op |-> "add_scan", scan |-> scan]
    /\ ret' = None
    /\ UNCHANGED <<widgets, algos>>

add_widget(widget) ==
    /\ widgets' = DictPut(widgets, widget.id, widget)
    /\ args' = [op |-> "add_widget", widget |-> widget]
    /\ ret' = None
    /\ UNCHANGED <<scans, algos>>

add_algo(algo) ==
    /\ algos' = DictPut(algos, algo.id, algo)
    /\ args' = [op |-> "add_algo", algo |-> algo]
    /\ ret' = None
    /\ UNCHANGED <<scans, widgets>>

GetWidgetCall(widget_id) ==
    /\ args' = [op |-> "get_widget", widget_id |-> widget_id]
    /\ ret' = Some(get_widget(widgets, widget_id))
    /\ UNCHANGED <<scans, widgets, algos>>

GetAlgoCall(algo_id) ==
    /\ args' = [op |-> "get_algo", algo_id |-> algo_id]
    /\ ret' = Some(get_algo(algos, algo_id))
    /\ UNCHANGED <<scans, widgets, algos>>

Criteria(users, devices, froms, tos) ==
    [user_id : users, device_id : devices, from_date : froms, to_date : tos]

ListScansCall(c) ==
    /\ args' = [op |-> "list_scans", criteria |-> c]
    /\ ret' = Some(list_scans(scans, c.user_id, c.device_id, c.from_date, c.to_date))
    /\ UNCHANGED <<scans, widgets, algos>>

----------------------------------------------------------------------------
(* AnalysisService                                                         *)

\* plausible slip: an earlier result of the same name is not replaced
ResultsByName_first(results) ==
    [n \in {results[i].parameter_name : i \in 1..Len(results)} |->
        LET first == CHOOSE i \in 1..Len(results) :
                        /\ results[i].parameter_name = n
                        /\ \A j \in 1..(i - 1) : results[j].parameter_name /= n
        IN  results[first]]

\* {r.parameter_name: r for r in results}: a later result replaces an
\* earlier one of the same name
ResultsByName(results) ==
    [n \in {results[i].parameter_name : i \in 1..Len(results)} |->
        LET last == CHOOSE i \in 1..Len(results) :
                        /\ results[i].parameter_name = n
                        /\ \A j \in (i + 1)..Len(results) : results[j].parameter_name /= n
        IN  results[last]]

\* plausible slip: every result's name is appended, listed or not
RECURSIVE AppendUnlisted_unchecked(_, _)
AppendUnlisted_unchecked(ordered_names, results) ==
    IF results = <<>> THEN ordered_names
    ELSE AppendUnlisted_unchecked(Append(ordered_names, Head(results).parameter_name),
                                  Tail(results))

\* for r in results: if r.parameter_name not in ordered_names: append it
RECURSIVE AppendUnlisted(_, _)
AppendUnlisted(ordered_names, results) ==
    IF results = <<>> THEN ordered_names
    ELSE LET n == Head(results).parameter_name
         IN  AppendUnlisted(IF n \in Range(ordered_names) THEN ordered_names
                            ELSE Append(ordered_names, n),
                            Tail(results))

\* plausible slip: the widget's param_order is not consulted
OrderedNames_results_order(results, param_order) ==
    [i \in 1..Len(results) |-> results[i].parameter_name]

\* plausible slip: with a param_order, only the names it lists are shown
OrderedNames_listed_only(results, param_order) ==
    IF param_order /= <<>>
    THEN param_order
    ELSE [i \in 1..Len(results) |-> results[i].parameter_name]

OrderedNames(results, param_order) ==
    IF param_order /= <<>>
    THEN AppendUnlisted(param_order, results)
    ELSE [i \in 1..Len(results) |-> results[i].parameter_name]

\* plausible slip: conf.get(key) without the default
ConfGet_no_default(conf, key, default) == IF key \in DOMAIN conf THEN conf[key] ELSE ""

\* conf.get(key, default) on the per-parameter dict
ConfGet(conf, key, default) == IF key \in DOMAIN conf THEN conf[key] ELSE default

\* f"{display_name}: {val_str}" for one result
FormattedPart(res, param_config) ==
    LET found        == DictGet(param_config, res.parameter_name)
        conf         == IF found = None THEN <<>> ELSE found[1]
        display_name == ConfGet(conf, "display_name", res.parameter_name)
        unit         == ConfGet(conf, "unit", "")
        val_str      == format_value(res.predicted_value, unit)
    IN  <<display_name, ":", " ">> \o val_str

\* plausible slip: a name without a result contributes an empty part
RECURSIVE FormattedParts_empty_part(_, _, _)
FormattedParts_empty_part(ordered_names, results_by_name, param_config) ==
    IF ordered_names = <<>> THEN <<>>
    ELSE LET res  == DictGet(results_by_name, Head(ordered_names))
             rest == FormattedParts_empty_part(Tail(ordered_names), results_by_name,
                                               param_config)
         IN  IF res = None THEN <<<<>>>> \o rest
             ELSE <<FormattedPart(res[1], param_config)>> \o rest

\* the loop over ordered_names; a name without a result is passed over
RECURSIVE FormattedParts(_, _, _)
FormattedParts(ordered_names, results_by_name, param_config) ==
    IF ordered_names = <<>> THEN <<>>
    ELSE LET res  == DictGet(results_by_name, Head(ordered_names))
             rest == FormattedParts(Tail(ordered_names), results_by_name, param_config)
         IN  IF res = None THEN rest
             ELSE <<FormattedPart(res[1], param_config)>> \o rest

_format_scan_results(results, param_config, param_order) ==
    LET results_by_name == ResultsByName(results)
        ordered_names   == OrderedNames(results, param_order)
        formatted_parts == FormattedParts(ordered_names, results_by_name, param_config)
    IN  <<"{">> \o join(<<",", " ">>, formatted_parts) \o <<"}">>

ScanReportRow(scan, widget, algo) ==
    [sampled_at        |-> scan.sampled_at,
     user_id           |-> scan.user_id,
     device_id         |-> scan.device_id,
     widget_name       |-> widget.name,
     algo_name         |-> algo.name,
     formatted_results |-> _format_scan_results(scan.results, widget.param_config,
                                                widget.param_order)]

\* plausible slip: `break` instead of `continue` on a missing reference
RECURSIVE ReportRows_break(_, _, _)
ReportRows_break(filtered, db_widgets, db_algos) ==
    IF filtered = <<>> THEN <<>>
    ELSE LET scan   == Head(filtered)
             widget == get_widget(db_widgets, scan.widget_id)
             algo   == get_algo(db_algos, scan.algo_id)
         IN  IF widget = None \/ algo = None THEN <<>>
             ELSE <<ScanReportRow(scan, widget[1], algo[1])>>
                    \o ReportRows_break(Tail(filtered), db_widgets, db_algos)

\* plausible slip: report.insert(0, row) instead of report.append(row)
RECURSIVE ReportRows_prepend(_, _, _)
ReportRows_prepend(filtered, db_widgets, db_algos) ==
    IF filtered = <<>> THEN <<>>
    ELSE LET scan   == Head(filtered)
             widget == get_widget(db_widgets, scan.widget_id)
             algo   == get_algo(db_algos, scan.algo_id)
             rest   == ReportRows_prepend(Tail(filtered), db_widgets, db_algos)
         IN  IF widget = None \/ algo = None THEN rest
             ELSE rest \o <<ScanReportRow(scan, widget[1], algo[1])>>

\* plausible slip: the algorithm is looked up under the widget's algo_id
RECURSIVE ReportRows_widget_algo(_, _, _)
ReportRows_widget_algo(filtered, db_widgets, db_algos) ==
    IF filtered = <<>> THEN <<>>
    ELSE LET scan   == Head(filtered)
             widget == get_widget(db_widgets, scan.widget_id)
             algo   == IF widget = None THEN None
                       ELSE get_algo(db_algos, widget[1].algo_id)
             rest   == ReportRows_widget_algo(Tail(filtered), db_widgets, db_algos)
         IN  IF widget = None \/ algo = None THEN rest
             ELSE <<ScanReportRow(scan, widget[1], algo[1])>> \o rest

\* the loop of get_scan_report over the filtered scans
RECURSIVE ReportRows(_, _, _)
ReportRows(filtered, db_widgets, db_algos) ==
    IF filtered = <<>> THEN <<>>
    ELSE LET scan   == Head(filtered)
             widget == get_widget(db_widgets, scan.widget_id)
             algo   == get_algo(db_algos, scan.algo_id)
             rest   == ReportRows(Tail(filtered), db_widgets, db_algos)
         IN  IF widget = None \/ algo = None THEN rest
             ELSE <<ScanReportRow(scan, widget[1], algo[1])>> \o rest

get_scan_report(db_scans, db_widgets, db_algos, user_id, device_id, from_date, to_date) ==
    ReportRows(list_scans(db_scans, user_id, device_id, from_date, to_date),
               db_widgets, db_algos)

\* plausible slip: ordered_names = param_order, the appends reach the
\* widget's own list
param_order_after_aliased(results, param_order) ==
    IF param_order /= <<>> THEN AppendUnlisted(param_order, results) ELSE param_order

\* the list object passed as param_order once _format_scan_results has run:
\* ordered_names = list(param_order) is a copy, the appends go to the copy
param_order_after(results, param_order) == param_order

\* the widgets of the store once the loop of get_scan_report has run: each
\* resolved widget hands its own param_order list to _format_scan_results
RECURSIVE widgets_after(_, _, _)
widgets_after(filtered, db_widgets, db_algos) ==
    IF filtered = <<>> THEN db_widgets
    ELSE LET scan   == Head(filtered)
             widget == get_widget(db_widgets, scan.widget_id)
             algo   == get_algo(db_algos, scan.algo_id)
         IN  IF widget = None \/ algo = None
             THEN widgets_after(Tail(filtered), db_widgets, db_algos)
             ELSE widgets_after(Tail(filtered),
                     [db_widgets EXCEPT ![scan.widget_id].param_order =
                         param_order_after(scan.results, @)],
                     db_algos)

\* what a call of get_scan_report leaves in the store
ReportEffect(user_id, device_id, from_date, to_date) ==
    /\ widgets' = widgets_after(list_scans(scans, user_id, device_id, from_date, to_date),
                                widgets, algos)
    /\ UNCHANGED <<scans, algos>>

\* plausible slip: widget.name is read before the check for a missing
\* reference, so a dangling scan ends the call with an exception and no
\* value is returned
GetScanReportCall_raises(c) ==
    /\ args' = [op |-> "get_scan_report", criteria |-> c]
    /\ ret' = IF \A i \in 1..Len(scans) :
                    /\ get_widget(widgets, scans[i].widget_id) /= None
                    /\ get_algo(algos, scans[i].algo_id) /= None
              THEN Some(get_scan_report(scans, widgets, algos, c.user_id, c.device_id,
                                        c.from_date, c.to_date))
              ELSE None
    /\ ReportEffect(c.user_id, c.device_id, c.from_date, c.to_date)

GetScanReportCall(c) ==
    /\ args' = [op |-> "get_scan_report", criteria |-> c]
    /\ ret' = Some(get_scan_report(scans, widgets, algos, c.user_id, c.device_id,
                                   c.from_date, c.to_date))
    /\ ReportEffect(c.user_id, c.device_id, c.from_date, c.to_date)

----------------------------------------------------------------------------
(* The report endpoints of the v1 router                                   *)

ReportRowOut(row) ==
    [sampled_at  |-> row.sampled_at,
     user_id     |-> row.user_id,
     device_id   |-> row.device_id,
     widget_name |-> row.widget_name,
     algo_name   |-> row.algo_name,
     results     |-> row.formatted_results]

\* [ReportRowOut(...) for row in data]
Response(data) == [i \in 1..Len(data) |-> ReportRowOut(data[i])]

get_all_reports(db_scans, db_widgets, db_algos) ==
    Response(get_scan_report(db_scans, db_widgets, db_algos, None, None, None, None))

get_reports_by_user(db_scans, db_widgets, db_algos, user_id) ==
    Response(get_scan_report(db_scans, db_widgets, db_algos,
                             Some(user_id), None, None, None))

get_reports_by_device(db_scans, db_widgets, db_algos, device_id) ==
    Response(get_scan_report(db_scans, db_widgets, db_algos,
                             None, Some(device_id), None, None))

get_reports_by_date_range(db_scans, db_widgets, db_algos, from_date, to_date) ==
    Response(get_scan_report(db_scans, db_widgets, db_algos,
                             None, None, from_date, to_date))

\* plausible slip: the device is not handed on
get_reports_by_user_and_device_user_only(db_scans, db_widgets, db_algos, user_id, device_id) ==
    Response(get_scan_report(db_scans, db_widgets, db_algos,
                             Some(user_id), None, None, None))

get_reports_by_user_and_device(db_scans, db_widgets, db_algos, user_id, device_id) ==
    Response(get_scan_report(db_scans, db_widgets, db_algos,
                             Some(user_id), Some(device_id), None, None))

GetAllReports ==
    /\ args' = [op |-> "get_all_reports"]
    /\ ret' = Some(get_all_reports(scans, widgets, algos))
    /\ ReportEffect(None, None, None, None)

GetReportsByUser(user_id) ==
    /\ args' = [op |-> "get_reports_by_user", user_id |-> user_id]
    /\ ret' = Some(get_reports_by_user(scans, widgets, algos, user_id))
    /\ ReportEffect(Some(user_id), None, None, None)

GetReportsByDevice(device_id) ==
    /\ args' = [op |-> "get_reports_by_device", device_id |-> device_id]
    /\ ret' = Some(get_reports_by_device(scans, widgets, algos, device_id))
    /\ ReportEffect(None, Some(device_id), None, None)

GetReportsByDateRange(from_date, to_date) ==
    /\ args' = [op |-> "get_reports_by_date_range",
                from_date |-> from_date, to_date |-> to_date]
    /\ ret' = Some(get_reports_by_date_range(scans, widgets, algos, from_date, to_date))
    /\ ReportEffect(None, None, from_date, to_date)

GetReportsByUserAndDevice(user_id, device_id) ==
    /\ args' = [op |-> "get_reports_by_user_and_device",
                user_id |-> user_id, device_id |-> device_id]
    /\ ret' = Some(get_reports_by_user_and_device(scans, widgets, algos,
                                                  user_id, device_id))
    /\ ReportEffect(Some(user_id), Some(device_id), None, None)

----------------------------------------------------------------------------
(* Specification SpecValue: format_value applied to one value and unit     *)

\* integer parts of the values drawn (carries 9.99x -> 10.0, 99.9x -> 100)
IntParts == {0, 8, 9, 10, 42, 68, 99, 100, 123}

\* a decimal k/1000 is stored exactly by a double only when k/1000 is a
\* multiple of 1/8; otherwise the double lies strictly below or above it
Floats(ips, fracs) ==
    {[neg |-> n, thou |-> 1000 * i + f, err |-> e] :
        n \in BOOLEAN, i \in ips, f \in fracs, e \in {-1, 0, 1}}

IsFloat(v) == (v.err = 0) <=> (v.thou % 125 = 0)

Values == {v \in Floats(IntParts, 0..999) : IsFloat(v)}

\* the three units format_value knows, no unit, an unknown unit and two
\* near misses of known units
Units == {"float_2_dig", "float_1_dig", "%", "", "unknown", "FLOAT_1_DIG", "% "}

InitValue ==
    /\ scans = <<>>
    /\ widgets = <<>>
    /\ algos = <<>>
    /\ args \in {[op |-> "format_value", value |-> v, unit |-> u] :
                    v \in Values, u \in Units}
    /\ ret = None

FormatValueCall ==
    /\ args.op = "format_value"
    /\ ret = None
    /\ ret' = Some(format_value(args.value, args.unit))
    /\ UNCHANGED <<scans, widgets, algos, args>>

NextValue == FormatValueCall

SpecValue == InitValue /\ [][NextValue]_vars

----------------------------------------------------------------------------
(* Specification SpecDb: the Database alone, scans added one at a time and *)
(* queried with every combination of criteria                              *)

MaxScans == 2

ScanIds == 1..MaxScans

\* the instants a scan can be sampled at and a date bound can name
Times == {0, 1}

Opt(S) == {None} \cup {Some(x) : x \in S}

DbScans ==
    [id : ScanIds, user_id : {"", "ariel"}, device_id : {"", "devA"},
     widget_id : {1}, algo_id : {1}, sampled_at : Times, results : {<<>>}]

DbCriteria ==
    Criteria(Opt({"", "ariel"}), Opt({"", "devA"}), Opt(Times), Opt(Times))

\* Database() without settings: three empty dicts
InitStore ==
    /\ scans = <<>>
    /\ widgets = <<>>
    /\ algos = <<>>
    /\ args = [op |-> "__init__"]
    /\ ret = None

NextDb ==
    \/ \E scan \in DbScans : add_scan(scan)
    \/ \E c \in DbCriteria : ListScansCall(c)

SpecDb == InitStore /\ [][NextDb]_vars

----------------------------------------------------------------------------
(* Specification SpecStore: records added again under an id already        *)
(* present, and looked up by id                                            *)

\* two scans for every id, told apart by their user
StoreScans ==
    [id : ScanIds, user_id : {"ariel", "dan"}, device_id : {"devA"},
     widget_id : {1}, algo_id : {1}, sampled_at : {0}, results : {<<>>}]

StoreWidgets ==
    [id : {1, 2}, name : {"Corn Scanner", "Wheat Scanner"}, algo_id : {1},
     param_config : {<<>>}, param_order : {<<>>}]

StoreAlgos == [id : {1, 2}, name : {"Corn Moisture Algo"}, version : {1, 2}]

\* ids looked up: present once added, absent before
LookupIds == {1, 2}

StoreCriteria == Criteria({None}, {None}, {None}, {None})

NextStore ==
    \/ \E scan \in StoreScans : add_scan(scan)
    \/ \E widget \in StoreWidgets : add_widget(widget)
    \/ \E algo \in StoreAlgos : add_algo(algo)
    \/ \E widget_id \in LookupIds : GetWidgetCall(widget_id)
    \/ \E algo_id \in LookupIds : GetAlgoCall(algo_id)
    \/ \E c \in StoreCriteria : ListScansCall(c)

SpecStore == InitStore /\ [][NextStore]_vars

----------------------------------------------------------------------------
(* Specification Spec: the AnalysisService on a Database                   *)

Float(thou) == [neg |-> FALSE, thou |-> thou, err |-> IF thou % 125 = 0 THEN 0 ELSE 1]

ScanResult(name, thou) == [parameter_name |-> name, predicted_value |-> Float(thou)]

\* who scanned, where, when and with what outcome
Profiles ==
    {[user_id |-> "ariel", device_id |-> "devA", sampled_at |-> 0,
      results |-> <<ScanResult("protein", 8234), ScanResult("moisture", 10000)>>],
     [user_id |-> "dan", device_id |-> "devB", sampled_at |-> 1,
      results |-> <<>>]}

\* widget 2 and algorithm 2 are never stored: a scan naming them dangles
SvcScans ==
    {[id |-> i, user_id |-> p.user_id, device_id |-> p.device_id,
      widget_id |-> r[1], algo_id |-> r[2], sampled_at |-> p.sampled_at,
      results |-> p.results] :
        i \in ScanIds, p \in Profiles, r \in {<<1, 1>>, <<2, 1>>, <<1, 2>>}}

CornConfig ==
    [n \in {"moisture", "protein"} |->
        IF n = "moisture"
        THEN [k \in {"name", "display_name", "unit"} |->
                IF k = "name" THEN "moisture"
                ELSE IF k = "display_name" THEN "Moisture" ELSE "%"]
        ELSE [k \in {"name", "display_name", "unit"} |->
                IF k = "name" THEN "protein"
                ELSE IF k = "display_name" THEN "Protein" ELSE "float_1_dig"]]

SvcWidgets ==
    {[id |-> 1, name |-> "Corn Scanner", algo_id |-> 1,
      param_config |-> CornConfig, param_order |-> <<"moisture", "protein">>],
     [id |-> 1, name |-> "Wheat Scanner", algo_id |-> 2,
      param_config |-> <<>>, param_order |-> <<>>]}

SvcAlgos == {[id |-> 1, name |-> "Corn Moisture Algo", version |-> 1]}

SvcCriteria ==
    Criteria({None, Some("ariel")}, {None, Some("devB")}, {None, Some(1)}, {None, Some(0)})

Next ==
    \/ \E scan \in SvcScans : add_scan(scan)
    \/ \E widget \in SvcWidgets : add_widget(widget)
    \/ \E algo \in SvcAlgos : add_algo(algo)
    \/ \E c \in SvcCriteria : ListScansCall(c)
    \/ \E c \in SvcCriteria : GetScanReportCall(c)

Spec == InitStore /\ [][Next]_vars

----------------------------------------------------------------------------
(* Specification SpecApi: the report endpoints, the AnalysisService and    *)
(* the Database on a store with two widgets and two algorithms, metadata   *)
(* partly missing                                                          *)

\* two users on one device; the first scan has a result ("fat") that no
\* widget lists or configures
ApiProfiles ==
    {[user_id |-> "ariel", device_id |-> "devA", sampled_at |-> 0,
      results |-> <<ScanResult("protein", 8234), ScanResult("fat", 10000)>>],
     [user_id |-> "dan", device_id |-> "devA", sampled_at |-> 1,
      results |-> <<>>]}

ApiScans ==
    {[id |-> i, user_id |-> p.user_id, device_id |-> p.device_id,
      widget_id |-> r[1], algo_id |-> r[2], sampled_at |-> p.sampled_at,
      results |-> p.results] :
        i \in ScanIds, p \in ApiProfiles, r \in {<<1, 1>>, <<2, 2>>}}

\* protein has no display_name and a unit format_value does not know
PartialConfig ==
    [n \in {"protein"} |->
        [k \in {"name", "unit"} |-> IF k = "name" THEN "protein" ELSE "unknown"]]

\* widget 1 names algorithm 2, whatever the scans using it name; its
\* param_order lists a parameter ("moisture") no scan has a result for
ApiWidgets ==
    {[id |-> 1, name |-> "Corn Scanner", algo_id |-> 2,
      param_config |-> PartialConfig, param_order |-> <<"moisture", "protein">>],
     [id |-> 2, name |-> "Wheat Scanner", algo_id |-> 2,
      param_config |-> <<>>, param_order |-> <<>>]}

ApiAlgos ==
    {[id |-> 1, name |-> "Corn Moisture Algo", version |-> 1],
     [id |-> 2, name |-> "Wheat Protein Algo", version |-> 2]}

ApiCriteria == Criteria({None, Some("ariel")}, {None, Some("devA")}, {None}, {None})

NextApi ==
    \/ \E scan \in ApiScans : add_scan(scan)
    \/ \E widget \in ApiWidgets : add_widget(widget)
    \/ \E algo \in ApiAlgos : add_algo(algo)
    \/ \E c \in ApiCriteria : ListScansCall(c)
    \/ \E c \in ApiCriteria : GetScanReportCall(c)
    \/ GetAllReports
    \/ \E user_id \in {"ariel", "ghost"} : GetReportsByUser(user_id)
    \/ \E device_id \in {"devA", "devB"} : GetReportsByDevice(device_id)
    \/ \E from_date \in {None, Some(1)}, to_date \in {None, Some(0)} :
            GetReportsByDateRange(from_date, to_date)
    \/ \E user_id \in {"ariel"}, device_id \in {"devA", "devB"} :
            GetReportsByUserAndDevice(user_id, device_id)

SpecApi == InitStore /\ [][NextApi]_vars

----------------------------------------------------------------------------
(* Specification SpecFormat: _format_scan_results applied to one results   *)
(* list, param_config and param_order                                      *)

MaxResults == 2

MaxOrder == 2

ParamNames == {"moisture", "protein", "fat"}

\* sequences over S of length at most n
SeqUpTo(S, n) == UNION {[1..k -> S] : k \in 0..n}

FmtResults ==
    SeqUpTo({ScanResult(n, t) : n \in ParamNames, t \in {8234, 10000}}, MaxResults)

DisplayName(n) == IF n = "moisture" THEN "Moisture" ELSE IF n = "protein" THEN "Protein" ELSE "Fat"

\* the per-parameter dicts a widget may hold for name n: any of the keys
\* display_name and unit may be missing
Confs(n) ==
    {<<>>} \cup {[k \in {"display_name"} |-> DisplayName(n)]}
           \cup {[k \in {"unit"} |-> u] : u \in {"%", "float_2_dig"}}
           \cup {[k \in {"display_name", "unit"} |->
                    IF k = "unit" THEN u ELSE DisplayName(n)] : u \in {"%", "float_2_dig"}}

\* "fat" is never configured
FmtConfigs ==
    {cfg \in UNION {[S -> UNION {Confs(n) : n \in S}] : S \in SUBSET {"moisture", "protein"}} :
        \A n \in DOMAIN cfg : cfg[n] \in Confs(n)}

FmtOrders == SeqUpTo(ParamNames, MaxOrder)

InitFormat ==
    /\ scans = <<>>
    /\ widgets = <<>>
    /\ algos = <<>>
    /\ args \in {[op |-> "_format_scan_results", results |-> r, param_config |-> c,
                  param_order |-> o] : r \in FmtResults, c \in FmtConfigs, o \in FmtOrders}
    /\ ret = None

FormatScanResultsCall ==
    /\ args.op = "_format_scan_results"
    /\ ret = None
    /\ ret' = Some(_format_scan_results(args.results, args.param_config, args.param_order))
    /\ UNCHANGED <<scans, widgets, algos, args>>

NextFormat == FormatScanResultsCall

SpecFormat == InitFormat /\ [][NextFormat]_vars

----------------------------------------------------------------------------
(* Reading a rendered number back                                          *)

Digits == Range(DigitChar)

DigitVal(c) == CHOOSE d \in 0..9 : DigitChar[d + 1] = c

\* value of a non-empty run of digit tokens
RECURSIVE Num(_)
Num(ds) == IF ds = <<>> THEN 0 ELSE 10 * Num(SubSeq(ds, 1, Len(ds) - 1)) + DigitVal(ds[Len(ds)])

AllDigits(ds) == ds /= <<>> /\ \A i \in 1..Len(ds) : ds[i] \in Digits

\* a canonical integer numeral: digits, no superfluous leading zero
IsIntNumeral(ds) == AllDigits(ds) /\ (Len(ds) > 1 => ds[1] /= "0")

\* first position of token ch in s, 0 when absent
IndexOf(s, ch) ==
    IF \E i \in 1..Len(s) : s[i] = ch
    THEN CHOOSE i \in 1..Len(s) : s[i] = ch /\ \A j \in 1..(i - 1) : s[j] /= ch
    ELSE 0

Unsigned(s) == IF s /= <<>> /\ s[1] = "-" THEN Tail(s) ELSE s

HasSignOf(s, v) == (s /= <<>> /\ s[1] = "-") <=> v.neg

\* s is v written with exactly `digits` fractional digits, v being rounded
\* to the nearest such decimal: sign, integer numeral, point, digits, and
\* nothing else
IsFixedRendering(s, v, digits) ==
    LET b   == Unsigned(s)
        dot == Len(b) - digits
    IN  /\ HasSignOf(s, v)
        /\ dot >= 2
        /\ b[dot] = "."
        /\ IsIntNumeral(SubSeq(b, 1, dot - 1))
        /\ AllDigits(SubSeq(b, dot + 1, Len(b)))
        /\ LET m    == Num(SubSeq(b, 1, dot - 1)) * Pow10(digits)
                           + Num(SubSeq(b, dot + 1, Len(b)))
               diff == m * Pow10(3 - digits) - v.thou
           IN  2 * diff <= Pow10(3 - digits) /\ 2 * diff >= 0 - Pow10(3 - digits)

\* s is v (an exact decimal of at most three fractional digits) written
\* with its integer part in full and its fraction without trailing zeros;
\* no decimal point when the fraction is zero
IsShortestRendering(s, v) ==
    LET b   == Unsigned(s)
        dot == IndexOf(b, ".")
        ip  == IF dot = 0 THEN b ELSE SubSeq(b, 1, dot - 1)
        fr  == IF dot = 0 THEN <<>> ELSE SubSeq(b, dot + 1, Len(b))
    IN  /\ HasSignOf(s, v)
        /\ IsIntNumeral(ip)
        /\ Num(ip) = v.thou \div 1000
        /\ Len(fr) <= 3
        /\ dot /= 0 => (AllDigits(fr) /\ fr[Len(fr)] /= "0")
        /\ Num(fr) * Pow10(3 - Len(fr)) = v.thou % 1000

Returned(op) == args.op = op /\ ret /= None

\* C1: format_value(v, "float_2_dig") is v with two fixed decimal places and
\* nothing around it (no parentheses, prefix or suffix)
C1_Float2DigIsPlain ==
    (Returned("format_value") /\ args.unit = "float_2_dig")
        => IsFixedRendering(ret[1], args.value, 2)

\* C6: format_value(v, "%") is v with at most three decimals, trailing zeros
\* and a bare decimal point removed, the integer part kept in full, followed
\* by one space and "%"
C6_PercentStripsOnlyFraction ==
    (Returned("format_value") /\ args.unit = "%") =>
        LET s == ret[1]
            n == Len(s)
        IN  /\ n >= 3
            /\ s[n - 1] = " "
            /\ s[n] = "%"
            /\ IsShortestRendering(SubSeq(s, 1, n - 2), args.value)

C6_Witness ==
    /\ Returned("format_value")
    /\ args.unit = "%"
    /\ ~args.value.neg
    /\ args.value.thou = 100000
    /\ ret[1] = <<"1", "0", "0", " ", "%">>

----------------------------------------------------------------------------
(* Reading a formatted results string back                                 *)

\* the pieces of s between the occurrences of token ch
RECURSIVE SplitOn(_, _)
SplitOn(s, ch) ==
    LET k == IndexOf(s, ch)
    IN  IF k = 0 THEN <<s>>
        ELSE <<SubSeq(s, 1, k - 1)>> \o SplitOn(SubSeq(s, k + 1, Len(s)), ch)

Inner(out) == SubSeq(out, 2, Len(out) - 1)

Braced(out) == Len(out) >= 2 /\ out[1] = "{" /\ out[Len(out)] = "}"

\* every comma is followed by exactly the one space of the separator
SeparatorsOk(out) ==
    LET parts == SplitOn(Inner(out), ",")
    IN  \A i \in 2..Len(parts) : parts[i] /= <<>> /\ parts[i][1] = " "

\* the entries of a braced string, the separators removed
Entries(out) ==
    LET parts == SplitOn(Inner(out), ",")
    IN  IF Inner(out) = <<>> THEN <<>>
        ELSE [i \in 1..Len(parts) |->
                IF i = 1 \/ parts[i] = <<>> THEN parts[i] ELSE Tail(parts[i])]

Punctuation == {"{", "}", ",", ":", " "}

\* "<name>: <value>" with a non-empty value free of structural tokens
IsEntry(e) ==
    /\ Len(e) >= 4
    /\ e[1] \notin Punctuation
    /\ e[2] = ":"
    /\ e[3] = " "
    /\ e[4] /= " "
    /\ \A i \in 4..Len(e) : e[i] \notin {"{", "}", ",", ":"}

EntryName(e) == e[1]

EntryValue(e) == SubSeq(e, 4, Len(e))

NamesOf(results) == [i \in 1..Len(results) |-> results[i].parameter_name]

\* the names of results that are not in `listed`, each once, in the order
\* of their first appearance
UnlistedNames(results, listed) ==
    LET first(i) == /\ results[i].parameter_name \notin Range(listed)
                    /\ \A j \in 1..(i - 1) :
                            results[j].parameter_name /= results[i].parameter_name
        idx      == SelectSeq([i \in 1..Len(results) |-> i], first)
    IN  [k \in 1..Len(idx) |-> results[idx[k]].parameter_name]

\* the order the description gives to the entries
DisplayOrder(results, param_order) ==
    LET hasResult(n) == n \in Range(NamesOf(results))
    IN  IF param_order /= <<>>
        THEN SelectSeq(param_order, hasResult) \o UnlistedNames(results, param_order)
        ELSE NamesOf(results)

HasField(param_config, n, key) ==
    n \in DOMAIN param_config /\ key \in DOMAIN param_config[n]

\* the display name and unit the description gives to parameter n
ShownName(param_config, n) ==
    IF HasField(param_config, n, "display_name") THEN param_config[n]["display_name"] ELSE n

ShownUnit(param_config, n) ==
    IF HasField(param_config, n, "unit") THEN param_config[n]["unit"] ELSE ""

\* C4: entries follow param_order, then the unlisted names in order of
\* first appearance; without an explicit order, the order of the results
C4_EntriesFollowDisplayOrder ==
    Returned("_format_scan_results") =>
        LET es    == Entries(ret[1])
            names == DisplayOrder(args.results, args.param_order)
        IN  /\ Len(es) = Len(names)
            /\ \A i \in 1..Len(es) :
                    es[i] /= <<>> /\ EntryName(es[i]) = ShownName(args.param_config, names[i])

C4_Witness ==
    /\ Returned("_format_scan_results")
    /\ args.param_order = <<"moisture", "protein">>
    /\ NamesOf(args.results) = <<"protein", "moisture">>
    /\ HasField(args.param_config, "moisture", "display_name")
    /\ HasField(args.param_config, "protein", "display_name")
    /\ Len(Entries(ret[1])) = 2
    /\ EntryName(Entries(ret[1])[1]) = "Moisture"
    /\ EntryName(Entries(ret[1])[2]) = "Protein"

\* C5: the string is "{" entries "}" with entries "<display name>: <value>"
\* separated by ", "; an empty result list gives exactly "{}"
C5_BracedCommaSeparatedEntries ==
    Returned("_format_scan_results") =>
        LET out == ret[1]
        IN  /\ Braced(out)
            /\ SeparatorsOk(out)
            /\ \A i \in 1..Len(Entries(out)) :
                    LET e == Entries(out)[i]
                    IN  /\ IsEntry(e)
                        /\ \E r \in Range(args.results) :
                              /\ EntryName(e) = ShownName(args.param_config, r.parameter_name)
                              /\ EntryValue(e) =
                                    format_value(r.predicted_value,
                                                 ShownUnit(args.param_config, r.parameter_name))
            /\ args.results = <<>> => out = <<"{", "}">>

C5_Witness ==
    /\ Returned("_format_scan_results")
    /\ args.results = <<ScanResult("protein", 8234), ScanResult("moisture", 10000)>>
    /\ args.param_order = <<>>
    /\ ret[1] = <<"{", "protein", ":", " ", "8", ".", "2", "3", "4", ",", " ",
                  "Moisture", ":", " ", "1", "0", " ", "%", "}">>

\* C10: a result whose parameter has no param_config entry is shown under
\* its raw name with the default rendering; an entry lacking display_name
\* or unit falls back for that field alone; no result goes unrendered
C10_MissingMetadataFallsBack ==
    Returned("_format_scan_results") =>
        \A r \in Range(args.results) :
            LET n   == r.parameter_name
                cfg == args.param_config
            IN  \E i \in 1..Len(Entries(ret[1])) :
                    LET e == Entries(ret[1])[i]
                    IN  /\ IsEntry(e)
                        /\ EntryName(e) =
                              (IF HasField(cfg, n, "display_name")
                               THEN cfg[n]["display_name"] ELSE n)
                        /\ \E q \in Range(args.results) :
                              /\ q.parameter_name = n
                              /\ EntryValue(e) =
                                    format_value(q.predicted_value,
                                                 IF HasField(cfg, n, "unit")
                                                 THEN cfg[n]["unit"] ELSE "")

C10_Witness ==
    /\ Returned("_format_scan_results")
    /\ args.results = <<ScanResult("fat", 10000), ScanResult("moisture", 8234)>>
    /\ "moisture" \in DOMAIN args.param_config
    /\ DOMAIN args.param_config["moisture"] = {"unit"}
    /\ args.param_config["moisture"]["unit"] = "%"
    /\ args.param_order = <<>>
    /\ ret[1] = <<"{", "fat", ":", " ", "1", "0", ".", "0", ",", " ",
                  "moisture", ":", " ", "8", ".", "2", "3", "4", " ", "%", "}">>

----------------------------------------------------------------------------
(* The filter and the report as the description states them                *)

\* a text criterion is supplied when it is neither None nor the empty
\* string; a date criterion when it is not None
TextSupplied(opt) == opt /= None /\ opt /= Some("")

DateSupplied(opt) == opt /= None

Satisfies(s, c) ==
    /\ TextSupplied(c.user_id) => s.user_id = c.user_id[1]
    /\ TextSupplied(c.device_id) => s.device_id = c.device_id[1]
    /\ DateSupplied(c.from_date) => s.sampled_at >= c.from_date[1]
    /\ DateSupplied(c.to_date) => s.sampled_at <= c.to_date[1]

NoCriteria == [user_id |-> None, device_id |-> None, from_date |-> None, to_date |-> None]

Listed(c) == list_scans(scans, c.user_id, c.device_id, c.from_date, c.to_date)

\* C2: list_scans returns exactly the stored scans that satisfy every
\* supplied criterion, date bounds inclusive; possibly none
C2_ListScansIsConjunctiveFilter ==
    Returned("list_scans") =>
        /\ Range(ret[1]) = {s \in Range(scans) : Satisfies(s, args.criteria)}
        /\ Len(ret[1]) = Cardinality(Range(ret[1]))

C2_Witness ==
    /\ Returned("list_scans")
    /\ args.criteria.from_date = Some(1)
    /\ args.criteria.to_date = Some(1)
    /\ args.criteria.user_id = Some("ariel")
    /\ Len(scans) = 2
    /\ scans[1].sampled_at = 0
    /\ scans[2].sampled_at = 1
    /\ ret[1] = <<scans[2]>>

\* C7: a criterion given as the empty string filters nothing: the result is
\* that of the same call without the criterion
C7_EmptyStringIsNoFilter ==
    Returned("list_scans") =>
        LET c == args.criteria
        IN  /\ c.user_id = Some("") => ret[1] = Listed([c EXCEPT !.user_id = None])
            /\ c.device_id = Some("") => ret[1] = Listed([c EXCEPT !.device_id = None])
            /\ (~TextSupplied(c.user_id) /\ ~TextSupplied(c.device_id)
                    /\ c.from_date = None /\ c.to_date = None) => ret[1] = scans

C7_Witness ==
    /\ Returned("list_scans")
    /\ args.criteria.user_id = Some("")
    /\ args.criteria.device_id = Some("")
    /\ Len(scans) = 2
    /\ scans[1].user_id = "ariel"
    /\ scans[1].device_id = "devA"
    /\ scans[2].user_id = ""
    /\ Len(ret[1]) = 2

\* C9: every result is part of the unfiltered result, and the result for
\* several criteria is the intersection of the results for each alone
C9_SubsetAndIntersection ==
    Returned("list_scans") =>
        LET c == args.criteria
        IN  /\ Range(ret[1]) \subseteq Range(Listed(NoCriteria))
            /\ Range(ret[1]) =
                  Range(Listed([NoCriteria EXCEPT !.user_id = c.user_id]))
                    \cap Range(Listed([NoCriteria EXCEPT !.device_id = c.device_id]))
                    \cap Range(Listed([NoCriteria EXCEPT !.from_date = c.from_date]))
                    \cap Range(Listed([NoCriteria EXCEPT !.to_date = c.to_date]))

C9_Witness ==
    /\ Returned("list_scans")
    /\ args.criteria.user_id = Some("ariel")
    /\ args.criteria.device_id = Some("devA")
    /\ Len(scans) = 2
    /\ scans[1].user_id = "ariel" /\ scans[1].device_id = ""
    /\ scans[2].user_id = "" /\ scans[2].device_id = "devA"
    /\ ret[1] = <<>>

Resolves(s) == s.widget_id \in DOMAIN widgets /\ s.algo_id \in DOMAIN algos

\* what a row shows of the scan and of the records it refers to
RowKey(row) == <<row.sampled_at, row.user_id, row.device_id, row.widget_name, row.algo_name>>

ScanKey(s) ==
    <<s.sampled_at, s.user_id, s.device_id, widgets[s.widget_id].name, algos[s.algo_id].name>>

\* C3: one row for each filtered scan whose widget and algorithm resolve,
\* none for the others, whatever the other scans are
C3_OneRowPerResolvableScan ==
    Returned("get_scan_report") =>
        LET kept == {i \in 1..Len(scans) :
                        Satisfies(scans[i], args.criteria) /\ Resolves(scans[i])}
        IN  /\ Len(ret[1]) = Cardinality(kept)
            /\ \A i \in kept : \E j \in 1..Len(ret[1]) : RowKey(ret[1][j]) = ScanKey(scans[i])
            /\ \A j \in 1..Len(ret[1]) : \E i \in kept : RowKey(ret[1][j]) = ScanKey(scans[i])
            /\ (args.criteria = NoCriteria /\ \A i \in 1..Len(scans) : Resolves(scans[i]))
                    => Len(ret[1]) = Len(scans)
            /\ scans = <<>> => ret[1] = <<>>

C3_Witness ==
    /\ Returned("get_scan_report")
    /\ Len(scans) = 2
    /\ Satisfies(scans[1], args.criteria) /\ ~Resolves(scans[1])
    /\ Satisfies(scans[2], args.criteria) /\ Resolves(scans[2])
    /\ Len(ret[1]) = 1
    /\ RowKey(ret[1][1]) = ScanKey(scans[2])

\* strictly increasing maps from 1..n into 1..m
Increasing(n, m) == {f \in [1..n -> 1..m] : \A i, j \in 1..n : i < j => f[i] < f[j]}

\* C8: the scans returned by list_scans and the rows returned by
\* get_scan_report follow the store's order: nothing reordered or repeated
C8_StoreOrderPreserved ==
    /\ Returned("list_scans") =>
          \E f \in Increasing(Len(ret[1]), Len(scans)) :
              \A i \in 1..Len(ret[1]) : ret[1][i] = scans[f[i]]
    /\ Returned("get_scan_report") =>
          \E f \in Increasing(Len(ret[1]), Len(scans)) :
              \A i \in 1..Len(ret[1]) :
                  /\ Resolves(scans[f[i]])
                  /\ RowKey(ret[1][i]) = ScanKey(scans[f[i]])

C8_Witness ==
    /\ Returned("get_scan_report")
    /\ Len(scans) = 2
    /\ Len(ret[1]) = 2
    /\ ret[1][1].user_id = "dan"
    /\ ret[1][2].user_id = "ariel"
    /\ scans[1].id = 2

----------------------------------------------------------------------------
(* Names of param_order that have no result                                *)

HasResult(results, n) == \E i \in 1..Len(results) : results[i].parameter_name = n

\* param_order without the names that have no result
WithResult(results, param_order) ==
    LET has(n) == HasResult(results, n)
    IN  SelectSeq(param_order, has)

\* C11: a name of param_order without a result leaves no entry and no
\* error: the string stays well formed and reads as if the name had not
\* been listed
C11_OrderNameWithoutResultSkipped ==
    (Returned("_format_scan_results")
        /\ \E n \in Range(args.param_order) : ~HasResult(args.results, n)) =>
        LET es == Entries(ret[1])
        IN  /\ Braced(ret[1])
            /\ SeparatorsOk(ret[1])
            /\ \A i \in 1..Len(es) : IsEntry(es[i])
            /\ \A i \in 1..Len(es) : \A n \in Range(args.param_order) :
                    ~HasResult(args.results, n)
                        => EntryName(es[i]) /= ShownName(args.param_config, n)
            /\ WithResult(args.results, args.param_order) /= <<>>
                    => ret[1] = _format_scan_results(args.results, args.param_config,
                                    WithResult(args.results, args.param_order))

C11_Witness ==
    /\ Returned("_format_scan_results")
    /\ args.param_order = <<"fat", "moisture">>
    /\ args.results = <<ScanResult("protein", 8234), ScanResult("moisture", 10000)>>
    /\ args.param_config = <<>>
    /\ ret[1] = <<"{", "moisture", ":", " ", "1", "0", ".", "0", ",", " ",
                  "protein", ":", " ", "8", ".", "2", "3", "4", "}">>

----------------------------------------------------------------------------
(* Units of format_value                                                   *)

KnownUnits == {"float_2_dig", "float_1_dig", "%"}

\* s is the default string of v (an exact decimal of at most three
\* fractional digits): sign, integer part, point, and the fraction without
\* trailing zeros but never empty
IsDefaultRendering(s, v) ==
    LET b   == Unsigned(s)
        dot == IndexOf(b, ".")
        fr  == SubSeq(b, dot + 1, Len(b))
    IN  /\ HasSignOf(s, v)
        /\ dot >= 2
        /\ IsIntNumeral(SubSeq(b, 1, dot - 1))
        /\ Num(SubSeq(b, 1, dot - 1)) = v.thou \div 1000
        /\ Len(fr) \in 1..3
        /\ AllDigits(fr)
        /\ Len(fr) > 1 => fr[Len(fr)] /= "0"
        /\ Num(fr) * Pow10(3 - Len(fr)) = v.thou % 1000

\* C12: every unit other than exactly "float_2_dig", "float_1_dig" or "%"
\* (the empty unit, an unknown one, a near miss of a known one) yields the
\* default numeric string of the value
C12_OtherUnitsGiveDefaultString ==
    (Returned("format_value") /\ args.unit \notin KnownUnits)
        => IsDefaultRendering(ret[1], args.value)

C12_Witness ==
    /\ Returned("format_value")
    /\ args.unit = "unknown"
    /\ args.value.thou = 123456 /\ ~args.value.neg
    /\ ret[1] = <<"1", "2", "3", ".", "4", "5", "6">>

\* C13: format_value(v, "float_1_dig") is v with exactly one fixed decimal
\* place and nothing around it
C13_Float1DigIsOneDecimal ==
    (Returned("format_value") /\ args.unit = "float_1_dig")
        => IsFixedRendering(ret[1], args.value, 1)

C13_Witness ==
    /\ Returned("format_value")
    /\ args.unit = "float_1_dig"
    /\ args.value.thou = 68730 /\ ~args.value.neg
    /\ ret[1] = <<"6", "8", ".", "7">>

----------------------------------------------------------------------------
(* Rows, reports and endpoints                                             *)

\* the stored scans a report with criteria c has a row for
Reported(c) == {i \in 1..Len(scans) : Satisfies(scans[i], c) /\ Resolves(scans[i])}

\* C14: every row is the projection of exactly one scan: time, user and
\* device are the scan's, widget_name is the name of the widget stored under
\* the scan's widget_id and algo_name the name of the algorithm stored under
\* the scan's algo_id, whatever algorithm the widget itself names
C14_RowIsProjectionOfItsScan ==
    Returned("get_scan_report") =>
        \E f \in Increasing(Len(ret[1]), Len(scans)) :
            /\ {f[k] : k \in 1..Len(ret[1])} = Reported(args.criteria)
            /\ \A k \in 1..Len(ret[1]) :
                LET row == ret[1][k]
                    s   == scans[f[k]]
                IN  /\ row.sampled_at = s.sampled_at
                    /\ row.user_id = s.user_id
                    /\ row.device_id = s.device_id
                    /\ row.widget_name = widgets[s.widget_id].name
                    /\ row.algo_name = algos[s.algo_id].name
                    /\ Braced(row.formatted_results)

C14_Witness ==
    /\ Returned("get_scan_report")
    /\ DOMAIN algos = {1, 2}
    /\ 1 \in DOMAIN widgets
    /\ widgets[1].algo_id = 2
    /\ Len(scans) = 1
    /\ scans[1].widget_id = 1 /\ scans[1].algo_id = 1
    /\ Len(ret[1]) = 1
    /\ ret[1][1].widget_name = "Corn Scanner"
    /\ ret[1][1].algo_name = "Corn Moisture Algo"

C17_ReportsAndListingsReadOnly ==
    [][args'.op \in {"list_scans", "get_scan_report"}
          => (scans' = scans /\ widgets' = widgets /\ algos' = algos)]_vars

\* a report was made of a scan with a result the widget's param_order does
\* not list
C17_Witness ==
    /\ Returned("get_scan_report")
    /\ Len(ret[1]) = 1
    /\ Len(scans) = 1
    /\ scans[1].widget_id = 1
    /\ HasResult(scans[1].results, "fat")
    /\ widgets[1].param_order = <<"moisture", "protein">>
    /\ "fat" \in Range(ret[1][1].formatted_results)

\* C18: whatever metadata is missing, a call of get_scan_report returns a
\* value, a list of well formed rows with at most one row for each scan
C18_ReportCompletesDespiteMissingMetadata ==
    args.op = "get_scan_report" =>
        /\ ret /= None
        /\ Len(ret[1]) <= Len(scans)
        /\ \A k \in 1..Len(ret[1]) :
            LET out == ret[1][k].formatted_results
            IN  /\ Braced(out)
                /\ SeparatorsOk(out)
                /\ \A i \in 1..Len(Entries(out)) : IsEntry(Entries(out)[i])

\* one scan dangles, the other is shown by a widget whose param_order names
\* a parameter without result and whose param_config lacks a display name,
\* a known unit and a whole parameter
C18_Witness ==
    /\ Returned("get_scan_report")
    /\ args.criteria = NoCriteria
    /\ Len(scans) = 2
    /\ ~Resolves(scans[1])
    /\ Resolves(scans[2])
    /\ Len(ret[1]) = 1
    /\ ret[1][1].formatted_results =
          <<"{", "protein", ":", " ", "8", ".", "2", "3", "4", ",", " ",
            "fat", ":", " ", "1", "0", ".", "0", "}">>

\* the rows get_scan_report gives for criteria c on the present store
RowsFor(c) == get_scan_report(scans, widgets, algos, c.user_id, c.device_id,
                              c.from_date, c.to_date)

\* response entries are the rows, one for one and in order, every field
\* copied and formatted_results shown as results
MapsRows(response, rows) ==
    /\ Len(response) = Len(rows)
    /\ \A i \in 1..Len(rows) :
        /\ DOMAIN response[i] = {"sampled_at", "user_id", "device_id",
                                 "widget_name", "algo_name", "results"}
        /\ response[i].sampled_at = rows[i].sampled_at
        /\ response[i].user_id = rows[i].user_id
        /\ response[i].device_id = rows[i].device_id
        /\ response[i].widget_name = rows[i].widget_name
        /\ response[i].algo_name = rows[i].algo_name
        /\ response[i].results = rows[i].formatted_results

\* C19: each endpoint answers with the rows of get_scan_report for its own
\* criteria and no others, mapped one for one
C19_EndpointsPassOwnCriteria ==
    /\ Returned("get_all_reports") => MapsRows(ret[1], RowsFor(NoCriteria))
    /\ Returned("get_reports_by_user") =>
          MapsRows(ret[1], RowsFor([NoCriteria EXCEPT !.user_id = Some(args.user_id)]))
    /\ Returned("get_reports_by_device") =>
          MapsRows(ret[1], RowsFor([NoCriteria EXCEPT !.device_id = Some(args.device_id)]))
    /\ Returned("get_reports_by_date_range") =>
          MapsRows(ret[1], RowsFor([NoCriteria EXCEPT !.from_date = args.from_date,
                                                      !.to_date = args.to_date]))
    /\ Returned("get_reports_by_user_and_device") =>
          MapsRows(ret[1], RowsFor([NoCriteria EXCEPT !.user_id = Some(args.user_id),
                                                      !.device_id = Some(args.device_id)]))

C19_Witness ==
    /\ Returned("get_reports_by_user_and_device")
    /\ args.user_id = "ariel" /\ args.device_id = "devA"
    /\ Len(scans) = 2
    /\ scans[1].user_id = "dan" /\ Resolves(scans[1])
    /\ scans[2].user_id = "ariel" /\ Resolves(scans[2])
    /\ Len(ret[1]) = 1
    /\ ret[1][1].user_id = "ariel"
    /\ Braced(ret[1][1].results)

----------------------------------------------------------------------------
(* Repeated parameter names                                                *)

NoRepeat(seq) == \A i, j \in 1..Len(seq) : i /= j => seq[i] /= seq[j]

EntryNamesDistinct(out) ==
    LET es == Entries(out)
    IN  \A i, j \in 1..Len(es) : i /= j => EntryName(es[i]) /= EntryName(es[j])

\* C20 as stated: at most one entry per parameter name, for every results
\* list and every param_order, names repeated in either included
C20_AtMostOneEntryPerName ==
    Returned("_format_scan_results") => EntryNamesDistinct(ret[1])

\* C20: at most one entry per parameter name when param_order repeats no
\* name and, if param_order is empty, the results repeat no name; under a
\* non-empty param_order a name repeated in the results has one entry
C20_AtMostOneEntryUnlessRepeated ==
    (Returned("_format_scan_results")
        /\ NoRepeat(args.param_order)
        /\ (args.param_order = <<>> => NoRepeat(NamesOf(args.results))))
        => EntryNamesDistinct(ret[1])

C20_Witness ==
    /\ Returned("_format_scan_results")
    /\ args.param_order = <<"protein">>
    /\ args.results = <<ScanResult("moisture", 8234), ScanResult("moisture", 10000)>>
    /\ args.param_config = <<>>
    /\ ret[1] = <<"{", "moisture", ":", " ", "1", "0", ".", "0", "}">>

----------------------------------------------------------------------------
(* Results and their entries                                               *)

\* C21: when neither the results nor param_order repeat a name, every
\* result has exactly one entry and there are as many entries as results,
\* whatever param_order and param_config contain
C21_NoResultLost ==
    (Returned("_format_scan_results")
        /\ NoRepeat(NamesOf(args.results))
        /\ NoRepeat(args.param_order)) =>
        LET es == Entries(ret[1])
        IN  /\ Len(es) = Len(args.results)
            /\ \A j \in 1..Len(args.results) :
                  Cardinality({i \in 1..Len(es) :
                      EntryName(es[i]) =
                          ShownName(args.param_config, args.results[j].parameter_name)}) = 1

\* one listed name has no result, one result is listed and one is not
C21_Witness ==
    /\ Returned("_format_scan_results")
    /\ args.param_order = <<"moisture", "protein">>
    /\ args.results = <<ScanResult("fat", 10000), ScanResult("protein", 8234)>>
    /\ args.param_config = <<>>
    /\ ret[1] = <<"{", "protein", ":", " ", "8", ".", "2", "3", "4", ",", " ",
                  "fat", ":", " ", "1", "0", ".", "0", "}">>

\* the positions of the results named n
Occurrences(results, n) == {j \in 1..Len(results) : results[j].parameter_name = n}

LastOccurrence(results, n) ==
    CHOOSE j \in Occurrences(results, n) : \A k \in Occurrences(results, n) : k <= j

\* C22: when several results bear the same name, every entry for that name
\* shows the value of the last of them and never the value of an earlier one
C22_LastResultOfNameShown ==
    Returned("_format_scan_results") =>
        LET es    == Entries(ret[1])
            names == DisplayOrder(args.results, args.param_order)
        IN  /\ Len(es) = Len(names)
            /\ \A i \in 1..Len(es) :
                LET n    == names[i]
                    unit == ShownUnit(args.param_config, n)
                    last == args.results[LastOccurrence(args.results, n)]
                IN  Cardinality(Occurrences(args.results, n)) > 1 =>
                      /\ EntryValue(es[i]) = format_value(last.predicted_value, unit)
                      /\ \A j \in Occurrences(args.results, n) :
                            args.results[j].predicted_value /= last.predicted_value
                              => EntryValue(es[i]) /=
                                    format_value(args.results[j].predicted_value, unit)

C22_Witness ==
    /\ Returned("_format_scan_results")
    /\ args.param_order = <<>>
    /\ args.results = <<ScanResult("moisture", 8234), ScanResult("moisture", 10000)>>
    /\ args.param_config = <<>>
    /\ ret[1] = <<"{", "moisture", ":", " ", "1", "0", ".", "0", ",", " ",
                  "moisture", ":", " ", "1", "0", ".", "0", "}">>

----------------------------------------------------------------------------
(* One record per identifier                                               *)

\* every collection holds one record per id, under its own id; a lookup
\* gives the stored record or the absent value; the record just added is
\* the stored one
OneRecordPerId ==
    /\ \A i, j \in 1..Len(scans) : i /= j => scans[i].id /= scans[j].id
    /\ \A k \in DOMAIN widgets : widgets[k].id = k
    /\ \A k \in DOMAIN algos : algos[k].id = k
    /\ args.op = "add_scan" =>
          \E i \in 1..Len(scans) : scans[i] = args.scan
    /\ args.op = "add_widget" => get_widget(widgets, args.widget.id) = Some(args.widget)
    /\ args.op = "add_algo" => get_algo(algos, args.algo.id) = Some(args.algo)
    /\ Returned("get_widget") =>
          ret[1] = IF args.widget_id \in DOMAIN widgets
                   THEN Some(widgets[args.widget_id]) ELSE None
    /\ Returned("get_algo") =>
          ret[1] = IF args.algo_id \in DOMAIN algos
                   THEN Some(algos[args.algo_id]) ELSE None
    /\ Returned("list_scans") => ret[1] = scans

\* a record added under a present id takes the place of the earlier one
\* (a scan at the earlier one's position) and the number of records stays;
\* under a new id it is one record more; the other records stay
AddReplacesOrExtends ==
    /\ args'.op = "add_scan" =>
          IF \E i \in 1..Len(scans) : scans[i].id = args'.scan.id
          THEN /\ Len(scans') = Len(scans)
               /\ \A i \in 1..Len(scans) :
                    scans'[i] = IF scans[i].id = args'.scan.id THEN args'.scan
                                ELSE scans[i]
          ELSE scans' = Append(scans, args'.scan)
    /\ args'.op = "add_widget" =>
          /\ DOMAIN widgets' = DOMAIN widgets \cup {args'.widget.id}
          /\ \A k \in DOMAIN widgets : k /= args'.widget.id => widgets'[k] = widgets[k]
    /\ args'.op = "add_algo" =>
          /\ DOMAIN algos' = DOMAIN algos \cup {args'.algo.id}
          /\ \A k \in DOMAIN algos : k /= args'.algo.id => algos'[k] = algos[k]

\* C23: after any sequence of add_scan, add_widget and add_algo the store
\* holds at most one record per id in each collection; adding under a
\* present id replaces the record without changing the count, a replaced
\* scan keeping its position; get_widget and get_algo give the absent value
\* for an id never added
C23_OneRecordPerIdReplaceInPlace == []OneRecordPerId /\ [][AddReplacesOrExtends]_vars

\* the scan just added stands first of two: it replaced the scan first
\* added under its id
C23_Witness ==
    /\ args.op = "add_scan"
    /\ Len(scans) = 2
    /\ scans[1] = args.scan
    /\ scans[1].user_id = "dan"
    /\ DOMAIN widgets = {1}
    /\ widgets[1].name = "Wheat Scanner"
    /\ DOMAIN algos = {2}

====
